---------------------------- MODULE Spec2Model ----------------------------
(***************************************************************************)
(* Reactive composition core of the documentation front end: the stream    *)
(* combinators takeIf and switchMapIf (extensions/rxjs/operators) and the  *)
(* main area geometry of setupMain.  Every component is a state machine    *)
(* of its own (SpecTakeIf, SpecSwitchMapIf, SpecMain); the variables of    *)
(* the other components stay as Init leaves them.                          *)
(*                                                                         *)
(* Streams are hot: an emission is delivered synchronously to the          *)
(* subscribers in the order in which they subscribed.  Each action is one  *)
(* external event together with everything the operators do in reaction.   *)
(***************************************************************************)
EXTENDS Integers, Sequences, FiniteSets

VARIABLES
  ti_toggle,      \* takeIf: the value withLatestFrom holds for toggle$
  ti_log,         \* takeIf: events in order (toggle, source, out)
  sm_replays,     \* switchMapIf: toggle$ replays its latest value on subscribe
  sm_toggle,      \* switchMapIf: latest value toggle$ emitted
  sm_outer,       \* switchMapIf: input whose combineLatest([of(v), begin$]) is subscribed
  sm_inner,       \* switchMapIf: innerSubscription of the second switchMap (0: none)
  sm_subscribed,  \* switchMapIf: derived streams that have a live subscription
  sm_projected,   \* switchMapIf: inputs project was invoked on, by invocation
  sm_log,         \* switchMapIf: events in order
  mn_replay,      \* setupMain: viewport and header streams replay their latest value
  vp_offset,      \* latest y of viewport.offset$
  vp_size,        \* latest height of viewport.size$
  hd_height,      \* latest height of header$
  el_box,         \* the element's layout box: offsetTop and offsetHeight
  mn_mounted,     \* setupMain: the element arrived and its streams are subscribed
  mn_heightIn,    \* setupMain: latest values held by the combineLatest of height$
  mn_heightLast,  \* setupMain: last value distinctUntilChanged let through in height$
  mn_activeIn,    \* setupMain: latest values held by the combineLatest of active$
  mn_activeLast,  \* setupMain: last value distinctUntilChanged let through in active$
  mn_mainIn,      \* setupMain: latest values held by the combining combineLatest
  mn_prev,        \* setupMain: the last snapshot emitted before the latest event
  mn_emitted,     \* setupMain: the snapshots the latest event emitted, in order
  mn_mountBox,    \* setupMain: the layout box the element had when it arrived
  mn_boxChanged,  \* setupMain: the layout box changed since the element arrived
  mn_subscribers, \* setupMain: subscribers of the resulting stream
  mn_upstream,    \* setupMain: subscriptions shareReplay holds on the switchMap stage
  mn_buffer,      \* setupMain: the snapshot shareReplay(1) keeps for replay
  mn_projected,   \* setupMain: times the switchMap projection ran in the latest event
  mn_joined,      \* setupMain: the subscriber the latest event added (0: none)
  mn_replayed,    \* setupMain: what that subscriber received on subscription
  nv_subscribed,  \* mountNavigation: the resulting stream is subscribed
  nv_replays,     \* mountNavigation: screen$ replays its latest value on subscribe
  nv_screen,      \* mountNavigation: latest value screen$ emitted
  nv_el,          \* mountNavigation: element whose screen$ pipe is subscribed (0: none)
  nv_gen,         \* mountNavigation: elements the outer switchMap projected so far
  nv_inner,       \* mountNavigation: branch the inner switchMap is subscribed to (0: none)
  nv_branches,    \* mountNavigation: branch streams created so far: element and kind
  nv_log,         \* mountNavigation: events in order
  fo_called,      \* watchElementFocus: the function was called
  fo_focused,     \* watchElementFocus: el is document.activeElement
  fo_start,       \* watchElementFocus: the value given to startWith
  fo_subscribers, \* watchElementFocus: subscribers, in subscription order
  fo_listeners,   \* watchElementFocus: focus/blur listener pairs on el
  fo_buffer,      \* watchElementFocus: value held by shareReplay(1)
  fo_log,         \* watchElementFocus: events in order
  dt_subscribed,  \* patchDetails: the returned stream is subscribed
  dt_replays,     \* patchDetails: document$ replays its latest value on subscribe
  dt_emitted,     \* patchDetails: document$ has emitted a document
  dt_details,     \* patchDetails: details elements of the current document
  dt_open,        \* patchDetails: details elements carrying the open attribute
  dt_media,       \* patchDetails: the print media query matches
  dt_armed,       \* patchDetails: switchMapTo is subscribed to document$
  dt_buffer,      \* patchDetails: list held by shareReplay(1)
  dt_log,         \* patchDetails: events in order
  cb_called,      \* setupClipboardJS: the function was called
  cb_stream,      \* setupClipboardJS: the kind of stream it returned
  cb_subscribers, \* setupClipboardJS: subscribers, in subscription order
  cb_connection,  \* setupClipboardJS: source subscription held by share() (0: none)
  cb_instances,   \* setupClipboardJS: ClipboardJS instances, each by the
                  \*   source subscription its handler feeds
  cb_log          \* setupClipboardJS: events in order

tiVars == <<ti_toggle, ti_log>>
smVars == <<sm_replays, sm_toggle, sm_outer, sm_inner, sm_subscribed,
            sm_projected, sm_log>>
mnVars == <<mn_replay, vp_offset, vp_size, hd_height, el_box, mn_mounted,
            mn_heightIn, mn_heightLast, mn_activeIn, mn_activeLast, mn_mainIn,
            mn_prev, mn_emitted, mn_mountBox, mn_boxChanged, mn_subscribers,
            mn_upstream, mn_buffer, mn_projected, mn_joined, mn_replayed>>
nvVars == <<nv_subscribed, nv_replays, nv_screen, nv_el, nv_gen, nv_inner,
            nv_branches, nv_log>>
foVars == <<fo_called, fo_focused, fo_start, fo_subscribers, fo_listeners,
            fo_buffer, fo_log>>
dtVars == <<dt_subscribed, dt_replays, dt_emitted, dt_details, dt_open, dt_media,
            dt_armed, dt_buffer, dt_log>>
cbVars == <<cb_called, cb_stream, cb_subscribers, cb_connection, cb_instances,
            cb_log>>
vars == <<tiVars, smVars, mnVars, nvVars, foVars, dtVars, cbVars>>

\* What each component leaves alone: the variables of the others
tiOthers == <<smVars, mnVars, nvVars, foVars, dtVars, cbVars>>
smOthers == <<tiVars, mnVars, nvVars, foVars, dtVars, cbVars>>
mnOthers == <<tiVars, smVars, nvVars, foVars, dtVars, cbVars>>
nvOthers == <<tiVars, smVars, mnVars, foVars, dtVars, cbVars>>
foOthers == <<tiVars, smVars, mnVars, nvVars, dtVars, cbVars>>
dtOthers == <<tiVars, smVars, mnVars, nvVars, foVars, cbVars>>
cbOthers == <<tiVars, smVars, mnVars, nvVars, foVars, dtVars>>

\* Values a source stream carries
Values == {"a", "b"}

\* An optional boolean: a slot that may not have received a value yet
NoBool == [has |-> FALSE, val |-> FALSE]
SomeBool(b) == [has |-> TRUE, val |-> b]

\* One entry of an event log
Ev(k, id, v, b) == [k |-> k, id |-> id, v |-> v, b |-> b]

(***************************************************************************)
(* takeIf                                                                  *)
(***************************************************************************)
MaxTakeIfEvents == 5

\* withLatestFrom(toggle$): pairs the value with the latest toggle value,
\* and emits nothing while toggle$ has not emitted
withLatestFrom(value, latest) ==
  IF latest.has THEN << <<value, latest.val>> >> ELSE << >>

filterActive_passAll(pairs) == pairs

\* filter(([, active]) => active)
filterActive(pairs) == SelectSeq(pairs, LAMBDA p : p[2])

\* map(([value]) => value)
mapValue(pairs) == [i \in 1..Len(pairs) |-> pairs[i][1]]

\* The values takeIf emits for one source value
takeIf(value, latest) == mapValue(filterActive(withLatestFrom(value, latest)))

TakeIfEvents == Cardinality({i \in 1..Len(ti_log) : ti_log[i].k # "out"})

TakeIfInit ==
  /\ ti_toggle = NoBool
  /\ ti_log = << >>

\* toggle$ emits b
TakeIfToggle(b) ==
  /\ TakeIfEvents < MaxTakeIfEvents
  /\ ti_toggle' = SomeBool(b)
  /\ ti_log' = Append(ti_log, Ev("toggle", 0, "", b))
  /\ UNCHANGED tiOthers

\* the source emits v
TakeIfSource(v) ==
  /\ TakeIfEvents < MaxTakeIfEvents
  /\ LET emitted == takeIf(v, ti_toggle)
     IN ti_log' = Append(ti_log, Ev("source", 0, v, FALSE))
                    \o [i \in 1..Len(emitted) |-> Ev("out", 0, emitted[i], FALSE)]
  /\ UNCHANGED <<ti_toggle, tiOthers>>

TakeIfNext ==
  \/ \E b \in BOOLEAN : TakeIfToggle(b)
  \/ \E v \in Values : TakeIfSource(v)

(***************************************************************************)
(* switchMapIf                                                             *)
(***************************************************************************)
MaxSwitchMapEvents == 5

SmExternal == {"toggle", "input", "src", "complete"}

SwitchMapEvents == Cardinality({i \in 1..Len(sm_log) : sm_log[i].k \in SmExternal})

\* The operator's mutable state, threaded through one reaction
SmState == [inner |-> sm_inner, subscribed |-> sm_subscribed,
            projected |-> sm_projected, log |-> sm_log]

\* Unsubscribing the second switchMap's inner subscription, if any
SmUnsubscribeInner(s) ==
  IF s.inner = 0 THEN s
  ELSE [s EXCEPT !.subscribed = @ \ {s.inner},
                 !.inner = 0,
                 !.log = Append(@, Ev("unsub", s.inner, "", FALSE))]

\* project(value).pipe(takeUntil(end$)) is subscribed: takeUntil subscribes to
\* end$ first, and a false replayed by toggle$ ends it before project's stream
\* is subscribed
SmSubscribeInner(s, id, toggle) ==
  IF sm_replays /\ toggle.has /\ ~toggle.val THEN s
  ELSE [s EXCEPT !.subscribed = @ \cup {id},
                 !.inner = id,
                 !.log = Append(@, Ev("sub", id, s.projected[id], FALSE))]

\* mergeMap in place of switchMap: the previous inner stream stays subscribed
SmSwitchInner_merge(s, value, active, toggle) ==
  IF active
  THEN LET id == Len(s.projected) + 1
           called == [s EXCEPT !.projected = Append(@, value),
                               !.log = Append(@, Ev("project", id, value, FALSE))]
       IN SmSubscribeInner(called, id, toggle)
  ELSE s

\* switchMap(([value, active]) => active ? project(value).pipe(takeUntil(end$))
\* : EMPTY): project is invoked, the previous inner subscription is
\* unsubscribed, the new stream is subscribed
SmSwitchInner(s, value, active, toggle) ==
  IF active
  THEN LET id == Len(s.projected) + 1
           called == [s EXCEPT !.projected = Append(@, value),
                               !.log = Append(@, Ev("project", id, value, FALSE))]
       IN SmSubscribeInner(SmUnsubscribeInner(called), id, toggle)
  ELSE SmUnsubscribeInner(s)

\* only a true that follows a false or nothing passes
begin_rising(b) == b /\ sm_toggle # SomeBool(TRUE)

\* begin$ = toggle$.pipe(filter(value => value))
begin(b) == b

end_never(b) == FALSE

\* end$ = toggle$.pipe(filter(value => !value))
end(b) == ~b

SmCommit(s) ==
  /\ sm_inner' = s.inner
  /\ sm_subscribed' = s.subscribed
  /\ sm_projected' = s.projected
  /\ sm_log' = s.log

SwitchMapIfInitWith(replays) ==
  /\ sm_replays = replays
  /\ sm_toggle = NoBool
  /\ sm_outer = [has |-> FALSE, val |-> ""]
  /\ sm_inner = 0
  /\ sm_subscribed = {}
  /\ sm_projected = << >>
  /\ sm_log = << >>

SwitchMapIfInit == \E replays \in BOOLEAN : SwitchMapIfInitWith(replays)

\* switchMapIf not in use
SwitchMapIfIdle == SwitchMapIfInitWith(FALSE)

\* toggle$ emits b: begin$ reaches the combineLatest of the latest input,
\* end$ reaches the takeUntil of the live derived stream
SmToggle(b) ==
  /\ SwitchMapEvents < MaxSwitchMapEvents
  /\ sm_toggle' = SomeBool(b)
  /\ LET s0 == [SmState EXCEPT !.log = Append(@, Ev("toggle", 0, "", b))]
         s1 == IF begin(b) /\ sm_outer.has
               THEN SmSwitchInner(s0, sm_outer.val, b, SomeBool(b))
               ELSE s0
         s2 == IF end(b) THEN SmUnsubscribeInner(s1) ELSE s1
     IN SmCommit(s2)
  /\ UNCHANGED <<sm_replays, sm_outer, smOthers>>

\* a plain switchMap(project): the derived stream starts whatever the toggle
SmInput_eager(v) ==
  /\ SwitchMapEvents < MaxSwitchMapEvents
  /\ sm_outer' = [has |-> TRUE, val |-> v]
  /\ SmCommit(SmSwitchInner(
       [SmState EXCEPT !.log = Append(@, Ev("input", 0, v, FALSE))],
       v, TRUE, sm_toggle))
  /\ UNCHANGED <<sm_replays, sm_toggle, smOthers>>

\* the source emits input v: switchMap(value => combineLatest([of(value),
\* begin$])) drops the previous combineLatest and subscribes a new one, which
\* emits at once only when begin$ replays a true
SmInput(v) ==
  /\ SwitchMapEvents < MaxSwitchMapEvents
  /\ sm_outer' = [has |-> TRUE, val |-> v]
  /\ LET s0 == [SmState EXCEPT !.log = Append(@, Ev("input", 0, v, FALSE))]
         s1 == IF sm_replays /\ sm_toggle.has /\ begin(sm_toggle.val)
               THEN SmSwitchInner(s0, v, sm_toggle.val, sm_toggle)
               ELSE s0
     IN SmCommit(s1)
  /\ UNCHANGED <<sm_replays, sm_toggle, smOthers>>

\* the stream returned by the id-th invocation of project produces a value,
\* which goes downstream when that stream is subscribed
SmProjectedEmit(id) ==
  /\ SwitchMapEvents < MaxSwitchMapEvents
  /\ id \in 1..Len(sm_projected)
  /\ LET src == Append(sm_log, Ev("src", id, sm_projected[id], FALSE))
     IN sm_log' = IF id \in sm_subscribed
                  THEN Append(src, Ev("out", id, sm_projected[id], FALSE))
                  ELSE src
  /\ UNCHANGED <<sm_replays, sm_toggle, sm_outer, sm_inner, sm_subscribed,
                 sm_projected, smOthers>>

\* the live derived stream completes
SmProjectedComplete ==
  /\ SwitchMapEvents < MaxSwitchMapEvents
  /\ sm_inner # 0
  /\ sm_inner' = 0
  /\ sm_subscribed' = sm_subscribed \ {sm_inner}
  /\ sm_log' = Append(sm_log, Ev("complete", sm_inner, "", FALSE))
  /\ UNCHANGED <<sm_replays, sm_toggle, sm_outer, sm_projected, smOthers>>

SwitchMapIfNext ==
  \/ \E b \in BOOLEAN : SmToggle(b)
  \/ \E v \in Values : SmInput(v)
  \/ \E id \in 1..MaxSwitchMapEvents : SmProjectedEmit(id)
  \/ SmProjectedComplete

(***************************************************************************)
(* setupMain                                                               *)
(***************************************************************************)
\* Values of the inputs: vertical viewport offsets, viewport heights, header
\* heights, and the element's offsetTop and offsetHeight
Ys == {0, 60}
ViewportHeights == {40, 800}
HeaderHeights == {50, 100}
Tops == {100, 140}
OffsetHeights == {400, 700}
Boxes == [top : Tops, height : OffsetHeights]

\* An optional number
NoInt == [has |-> FALSE, val |-> 0]
SomeInt(n) == [has |-> TRUE, val |-> n]

\* Math.max of the numbers in S
MathMax(S) == CHOOSE x \in S : \A y \in S : y <= x

\* the box captured when the element arrived, instead of read when evaluated
offsetTop_atMount == mn_mountBox.top

\* el.offsetTop and el.offsetHeight, read from the element when evaluated
offsetTop == el_box.top
offsetHeight == el_box.height

\* the visible height clamped at 0
VisibleHeight_clamped(y, height, adjust) ==
  LET top == offsetTop
      bottom == offsetHeight + top
  IN MathMax({0, height
                   - MathMax({0, top - y, adjust})
                   - MathMax({0, height + y - bottom})})

\* The main area's visible height
VisibleHeight(y, height, adjust) ==
  LET top == offsetTop
      bottom == offsetHeight + top
  IN height
       - MathMax({0, top - y, adjust})
       - MathMax({0, height + y - bottom})

\* Whether the viewport offset is past the main area's top
PastTop(y, adjust) == y >= offsetTop - adjust

\* the header height added to the top offset instead of subtracted
MainOf_plus(height, adjust, active) ==
  [offset |-> offsetTop + adjust, height |-> height, active |-> active]

\* The snapshot the combining stage maps its latest values to
MainOf(height, adjust, active) ==
  [offset |-> offsetTop - adjust, height |-> height, active |-> active]

\* distinctUntilChanged(): whether value differs from the last one let through
distinctUntilChanged(last, value) == ~last.has \/ last.val # value

\* The streams subscribed for one element, before any value arrived
MainFresh ==
  [heightIn |-> [y |-> NoInt, height |-> NoInt, adjust |-> NoInt],
   heightLast |-> NoInt,
   activeIn |-> [y |-> NoInt, adjust |-> NoInt],
   activeLast |-> NoBool,
   mainIn |-> [height |-> NoInt, adjust |-> NoInt, active |-> NoBool],
   emitted |-> << >>]

\* The streams of the mounted element as they stand, nothing emitted yet
MainState ==
  [heightIn |-> mn_heightIn, heightLast |-> mn_heightLast,
   activeIn |-> mn_activeIn, activeLast |-> mn_activeLast,
   mainIn |-> mn_mainIn, emitted |-> << >>]

\* combineLatest([height$, adjust$, active$]) emits once every input has a value
MainCombine(p) ==
  IF p.mainIn.height.has /\ p.mainIn.adjust.has /\ p.mainIn.active.has
  THEN [p EXCEPT !.emitted = Append(@, MainOf(p.mainIn.height.val,
                                                p.mainIn.adjust.val,
                                                p.mainIn.active.val))]
  ELSE p

\* height$: the combineLatest of offset$, size$ and adjust$ took a new value;
\* map and distinctUntilChanged follow, then the combining stage
HeightRecompute(p) ==
  IF p.heightIn.y.has /\ p.heightIn.height.has /\ p.heightIn.adjust.has
  THEN LET h == VisibleHeight(p.heightIn.y.val, p.heightIn.height.val,
                              p.heightIn.adjust.val)
       IN IF distinctUntilChanged(p.heightLast, h)
          THEN MainCombine([p EXCEPT !.heightLast = SomeInt(h),
                                     !.mainIn.height = SomeInt(h)])
          ELSE p
  ELSE p

\* active$: the combineLatest of offset$ and adjust$ took a new value
ActiveRecompute(p) ==
  IF p.activeIn.y.has /\ p.activeIn.adjust.has
  THEN LET a == PastTop(p.activeIn.y.val, p.activeIn.adjust.val)
       IN IF distinctUntilChanged(p.activeLast, a)
          THEN MainCombine([p EXCEPT !.activeLast = SomeBool(a),
                                     !.mainIn.active = SomeBool(a)])
          ELSE p
  ELSE p

\* viewport.offset$ delivers y: to height$, then to active$
OnOffset(p, y) ==
  LET p1 == HeightRecompute([p EXCEPT !.heightIn.y = SomeInt(y)])
  IN ActiveRecompute([p1 EXCEPT !.activeIn.y = SomeInt(y)])

\* viewport.size$ delivers height: to height$
OnSize(p, height) ==
  HeightRecompute([p EXCEPT !.heightIn.height = SomeInt(height)])

\* header$ delivers a header of this height: to the adjust$ of height$, to the
\* adjust$ of the combining stage, then to the adjust$ of active$
OnHeader(p, adjust) ==
  LET p1 == HeightRecompute([p EXCEPT !.heightIn.adjust = SomeInt(adjust)])
      p2 == MainCombine([p1 EXCEPT !.mainIn.adjust = SomeInt(adjust)])
  IN ActiveRecompute([p2 EXCEPT !.activeIn.adjust = SomeInt(adjust)])

\* Subscribing the streams of a new element: combineLatest subscribes its
\* inputs in order, and a replaying input delivers its latest value at once
OnSubscribe(p) ==
  LET ry == mn_replay /\ vp_offset.has
      rs == mn_replay /\ vp_size.has
      rh == mn_replay /\ hd_height.has
      h1 == IF ry THEN HeightRecompute([p EXCEPT !.heightIn.y = vp_offset]) ELSE p
      h2 == IF rs THEN HeightRecompute([h1 EXCEPT !.heightIn.height = vp_size]) ELSE h1
      h3 == IF rh THEN HeightRecompute([h2 EXCEPT !.heightIn.adjust = hd_height]) ELSE h2
      m1 == IF rh THEN MainCombine([h3 EXCEPT !.mainIn.adjust = hd_height]) ELSE h3
      a1 == IF ry THEN ActiveRecompute([m1 EXCEPT !.activeIn.y = vp_offset]) ELSE m1
      a2 == IF rh THEN ActiveRecompute([a1 EXCEPT !.activeIn.adjust = hd_height]) ELSE a1
  IN a2

\* The last snapshot emitted for the mounted element, if any
MainLast ==
  IF mn_emitted # << >>
  THEN [has |-> TRUE, val |-> mn_emitted[Len(mn_emitted)]]
  ELSE mn_prev

NoMain == [has |-> FALSE, val |-> [offset |-> 0, height |-> 0, active |-> FALSE]]

\* Subscribers of the resulting stream
Subscribers == {1, 2}

NoSubscriber == 0

\* every subscriber subscribing the switchMap stage itself, nothing shared
shareReplaySource_perSubscriber(upstream) == upstream + 1

\* shareReplay(1), a subscriber arrives: the source is subscribed when no
\* subscription to it exists yet; the result is the subscriptions it holds
shareReplaySource(upstream) == IF upstream = 0 THEN 1 ELSE upstream

\* shareReplay(1), a subscriber leaves: the subscription to a source that has
\* not completed is kept, whatever the number of subscribers left
shareReplayRelease(upstream, subscribers) == upstream

\* shareReplay(1): the buffer after the source emitted these values
shareReplayBuffer(buffer, emitted) ==
  IF emitted # << >>
  THEN [has |-> TRUE, val |-> emitted[Len(emitted)]]
  ELSE buffer

\* shareReplay(1): what a new subscriber receives on subscription
shareReplayReplay(buffer) == IF buffer.has THEN <<buffer.val>> ELSE << >>

\* The streams of the element after an event, and what shareReplay keeps
MainDeliver(p, prev) ==
  /\ mn_heightIn' = p.heightIn
  /\ mn_heightLast' = p.heightLast
  /\ mn_activeIn' = p.activeIn
  /\ mn_activeLast' = p.activeLast
  /\ mn_mainIn' = p.mainIn
  /\ mn_emitted' = p.emitted
  /\ mn_prev' = prev
  /\ mn_buffer' = shareReplayBuffer(mn_buffer, p.emitted)
  /\ mn_joined' = NoSubscriber
  /\ mn_replayed' = << >>

MainCommit(p, prev) ==
  /\ MainDeliver(p, prev)
  /\ mn_projected' = 0

\* The state before any event, with these subscribers already subscribed
MainInitOf(subscribers, replay, box) ==
  /\ mn_replay = replay
  /\ vp_offset = NoInt
  /\ vp_size = NoInt
  /\ hd_height = NoInt
  /\ el_box = box
  /\ mn_mounted = FALSE
  /\ mn_heightIn = MainFresh.heightIn
  /\ mn_heightLast = MainFresh.heightLast
  /\ mn_activeIn = MainFresh.activeIn
  /\ mn_activeLast = MainFresh.activeLast
  /\ mn_mainIn = MainFresh.mainIn
  /\ mn_prev = NoMain
  /\ mn_emitted = << >>
  /\ mn_mountBox = el_box
  /\ mn_boxChanged = FALSE
  /\ mn_subscribers = subscribers
  /\ mn_upstream = (IF subscribers = {} THEN 0 ELSE shareReplaySource(0))
  /\ mn_buffer = NoMain
  /\ mn_projected = 0
  /\ mn_joined = NoSubscriber
  /\ mn_replayed = << >>

MainInitWith(subscribers) ==
  \E replay \in BOOLEAN, box \in Boxes : MainInitOf(subscribers, replay, box)

\* setupMain not in use
MainIdle == MainInitOf({}, FALSE, CHOOSE box \in Boxes : TRUE)

MainInit == MainInitWith({})

\* the source emits the element to the switchMap stage, once shareReplay
\* subscribed it: switchMap drops the streams of the previous element and
\* subscribes those of the new one
MainElement ==
  /\ mn_upstream > 0
  /\ mn_mounted' = TRUE
  /\ MainDeliver(OnSubscribe(MainFresh), NoMain)
  /\ mn_projected' = mn_upstream
  /\ mn_mountBox' = el_box
  /\ mn_boxChanged' = FALSE
  /\ UNCHANGED <<mn_replay, mn_subscribers, mn_upstream, vp_offset, vp_size,
                 hd_height, el_box, mnOthers>>

\* a subscriber subscribes the resulting stream
MainSubscribe(s) ==
  /\ s \notin mn_subscribers
  /\ mn_subscribers' = mn_subscribers \cup {s}
  /\ mn_upstream' = shareReplaySource(mn_upstream)
  /\ mn_joined' = s
  /\ mn_replayed' = shareReplayReplay(mn_buffer)
  /\ mn_projected' = 0
  /\ mn_prev' = MainLast
  /\ mn_emitted' = << >>
  /\ UNCHANGED <<mn_replay, vp_offset, vp_size, hd_height, el_box, mn_mounted,
                 mn_heightIn, mn_heightLast, mn_activeIn, mn_activeLast,
                 mn_mainIn, mn_mountBox, mn_boxChanged, mn_buffer, mnOthers>>

\* a subscriber unsubscribes from the resulting stream
MainUnsubscribe(s) ==
  /\ s \in mn_subscribers
  /\ mn_subscribers' = mn_subscribers \ {s}
  /\ mn_upstream' = shareReplayRelease(mn_upstream, mn_subscribers')
  /\ MainCommit(MainState, MainLast)
  /\ UNCHANGED <<mn_replay, vp_offset, vp_size, hd_height, el_box, mn_mounted,
                 mn_mountBox, mn_boxChanged, mnOthers>>

\* viewport.offset$ emits y
MainOffset(y) ==
  /\ vp_offset' = SomeInt(y)
  /\ IF mn_mounted
     THEN MainCommit(OnOffset(MainState, y), MainLast)
     ELSE MainCommit(MainState, MainLast)
  /\ UNCHANGED <<mn_replay, mn_subscribers, mn_upstream,
                 vp_size, hd_height, el_box, mn_mounted,
                 mn_mountBox, mn_boxChanged, mnOthers>>

\* viewport.size$ emits height
MainSize(height) ==
  /\ vp_size' = SomeInt(height)
  /\ IF mn_mounted
     THEN MainCommit(OnSize(MainState, height), MainLast)
     ELSE MainCommit(MainState, MainLast)
  /\ UNCHANGED <<mn_replay, mn_subscribers, mn_upstream,
                 vp_offset, hd_height, el_box, mn_mounted,
                 mn_mountBox, mn_boxChanged, mnOthers>>

\* header$ emits a header of this height
MainHeader(height) ==
  /\ hd_height' = SomeInt(height)
  /\ IF mn_mounted
     THEN MainCommit(OnHeader(MainState, height), MainLast)
     ELSE MainCommit(MainState, MainLast)
  /\ UNCHANGED <<mn_replay, mn_subscribers, mn_upstream,
                 vp_offset, vp_size, el_box, mn_mounted,
                 mn_mountBox, mn_boxChanged, mnOthers>>

\* the page lays the element out anew: its offsetTop or offsetHeight changes
MainLayout(box) ==
  /\ box # el_box
  /\ el_box' = box
  /\ mn_boxChanged' = mn_mounted
  /\ MainCommit(MainState, MainLast)
  /\ UNCHANGED <<mn_replay, mn_subscribers, mn_upstream,
                 vp_offset, vp_size, hd_height, mn_mounted,
                 mn_mountBox, mnOthers>>

\* The events of the resulting stream with its subscribers coming and going
MainSharedNext ==
  \/ \E s \in Subscribers : MainSubscribe(s)
  \/ \E s \in Subscribers : MainUnsubscribe(s)
  \/ MainElement
  \/ \E y \in Ys : MainOffset(y)
  \/ \E height \in ViewportHeights : MainSize(height)
  \/ \E height \in HeaderHeights : MainHeader(height)
  \/ \E box \in Boxes : MainLayout(box)

\* The events of the resulting stream while its subscribers stay
MainNext ==
  \/ MainElement
  \/ \E y \in Ys : MainOffset(y)
  \/ \E height \in ViewportHeights : MainSize(height)
  \/ \E height \in HeaderHeights : MainHeader(height)
  \/ \E box \in Boxes : MainLayout(box)

(***************************************************************************)
(* mountNavigation                                                         *)
(***************************************************************************)
MaxNavigationEvents == 6

\* Mount elements the source emits
NavEls == {1, 2}

\* One entry of the navigation log: an element, a stream (a branch by its
\* number, a screen$ pipe by its generation), a branch kind, the keys of an
\* emitted state, a screen value
NvEv(k, el, id, kind, keys, b) ==
  [k |-> k, el |-> el, id |-> id, kind |-> kind, keys |-> keys, b |-> b]

NvExternal == {"subscribe", "element", "screen", "src"}

NavigationEvents ==
  Cardinality({i \in 1..Len(nv_log) : nv_log[i].k \in NvExternal})

\* The operator's mutable state, threaded through one reaction
NvState == [el |-> nv_el, gen |-> nv_gen, inner |-> nv_inner,
            branches |-> nv_branches, log |-> nv_log]

\* the branches taken the wrong way round
NvBranch_swapped(screen) == IF screen THEN "layer" ELSE "sidebar"

\* if (screen): the sidebar watcher, else the navigation layer watcher
NvBranch(screen) == IF screen THEN "sidebar" ELSE "layer"

\* map(sidebar => ({ sidebar })), map(layer => ({ layer })): the keys of the
\* state a branch of this kind emits
NavigationOf(kind) == {kind}

\* The inner switchMap unsubscribes the branch it is subscribed to, if any
NvUnsubscribeBranch(s) ==
  IF s.inner = 0 THEN s
  ELSE [s EXCEPT !.inner = 0,
                 !.log = Append(@, NvEv("unsub", s.branches[s.inner].el, s.inner,
                                        s.branches[s.inner].kind, {}, FALSE))]

\* switchMap(screen => ...): screen$ delivered a value to the pipe of the
\* current element; the branch stream is created, the previous branch is
\* unsubscribed, the new one is subscribed
NvInnerSwitch(s, screen) ==
  LET id == Len(s.branches) + 1
      kind == NvBranch(screen)
      seen == [s EXCEPT !.log = Append(@, NvEv("seen", s.el, s.gen, "", {}, screen))]
      made == [seen EXCEPT !.branches = Append(@, [el |-> s.el, kind |-> kind]),
                           !.log = Append(@, NvEv("watch", s.el, id, kind, {}, FALSE))]
      freed == NvUnsubscribeBranch(made)
  IN [freed EXCEPT !.inner = id,
                   !.log = Append(@, NvEv("sub", s.el, id, kind, {}, FALSE))]

\* The outer switchMap unsubscribes the screen$ pipe of the previous element,
\* and with it the branch that pipe is subscribed to
NvUnsubscribeElement(s) ==
  IF s.el = 0 THEN s
  ELSE LET freed == NvUnsubscribeBranch(s)
       IN [freed EXCEPT !.log = Append(@, NvEv("unsubscreen", s.el, s.gen,
                                               "", {}, FALSE)),
                        !.el = 0]

\* the screen$ pipe of the new element subscribed beside the previous one
NvOuterSwitch_merge(s, el) ==
  LET next == [s EXCEPT !.el = el, !.gen = @ + 1]
      bound == [next EXCEPT !.log = Append(@, NvEv("subscreen", el, next.gen,
                                                    "", {}, FALSE))]
  IN IF nv_replays /\ nv_screen.has
     THEN NvInnerSwitch(bound, nv_screen.val)
     ELSE bound

\* switchMap(el => screen$.pipe(...)): the pipe of the previous element is
\* unsubscribed, the pipe of the new element is subscribed, and a replaying
\* screen$ delivers its latest value at once
NvOuterSwitch(s, el) ==
  LET freed == NvUnsubscribeElement(s)
      next == [freed EXCEPT !.el = el, !.gen = @ + 1]
      bound == [next EXCEPT !.log = Append(@, NvEv("subscreen", el, next.gen,
                                                    "", {}, FALSE))]
  IN IF nv_replays /\ nv_screen.has
     THEN NvInnerSwitch(bound, nv_screen.val)
     ELSE bound

NvCommit(s) ==
  /\ nv_el' = s.el
  /\ nv_gen' = s.gen
  /\ nv_inner' = s.inner
  /\ nv_branches' = s.branches
  /\ nv_log' = s.log

NavigationInit ==
  /\ nv_subscribed = FALSE
  /\ nv_replays = FALSE
  /\ nv_screen = NoBool
  /\ nv_el = 0
  /\ nv_gen = 0
  /\ nv_inner = 0
  /\ nv_branches = << >>
  /\ nv_log = << >>

\* the stream mountNavigation({ screen$ }) returns is subscribed, screen$
\* being a stream that replays its latest value or one that does not
NvSubscribe(replays) ==
  /\ ~nv_subscribed
  /\ NavigationEvents < MaxNavigationEvents
  /\ nv_subscribed' = TRUE
  /\ nv_replays' = replays
  /\ nv_log' = Append(nv_log, NvEv("subscribe", 0, 0, "", {}, replays))
  /\ UNCHANGED <<nv_screen, nv_el, nv_gen, nv_inner, nv_branches, nvOthers>>

\* the source emits a mount element
NvElement(el) ==
  /\ nv_subscribed
  /\ NavigationEvents < MaxNavigationEvents
  /\ NvCommit(NvOuterSwitch(
       [NvState EXCEPT !.log = Append(@, NvEv("element", el, 0, "", {}, FALSE))],
       el))
  /\ UNCHANGED <<nv_subscribed, nv_replays, nv_screen, nvOthers>>

\* screen$ emits b
NvScreen(b) ==
  /\ NavigationEvents < MaxNavigationEvents
  /\ nv_screen' = SomeBool(b)
  /\ LET s0 == [NvState EXCEPT !.log = Append(@, NvEv("screen", 0, 0, "", {}, b))]
     IN NvCommit(IF nv_el # 0 THEN NvInnerSwitch(s0, b) ELSE s0)
  /\ UNCHANGED <<nv_subscribed, nv_replays, nvOthers>>

\* the branch stream number id produces a state, which is painted, wrapped
\* and emitted when the inner switchMap is subscribed to that stream
NvBranchEmit(id) ==
  /\ NavigationEvents < MaxNavigationEvents
  /\ id \in 1..Len(nv_branches)
  /\ LET br == nv_branches[id]
         src == Append(nv_log, NvEv("src", br.el, id, br.kind, {}, FALSE))
     IN nv_log' = IF id = nv_inner
                  THEN Append(src, NvEv("out", br.el, id, br.kind,
                                        NavigationOf(br.kind), FALSE))
                  ELSE src
  /\ UNCHANGED <<nv_subscribed, nv_replays, nv_screen, nv_el, nv_gen, nv_inner,
                 nv_branches, nvOthers>>

NavigationNext ==
  \/ \E replays \in BOOLEAN : NvSubscribe(replays)
  \/ \E el \in NavEls : NvElement(el)
  \/ \E b \in BOOLEAN : NvScreen(b)
  \/ \E id \in 1..MaxNavigationEvents : NvBranchEmit(id)

(***************************************************************************)
(* watchElementFocus                                                       *)
(***************************************************************************)
MaxFocusEvents == 6

FoExternal == {"call", "focus", "blur", "subscribe", "unsubscribe"}

FocusEvents ==
  Cardinality({i \in 1..Len(fo_log) : fo_log[i].k \in FoExternal})

\* el === document.activeElement
isActiveElement == fo_focused

\* The entries by which value b reaches the subscribers, in subscription order
FoNext(subscribers, b) ==
  [i \in 1..Len(subscribers) |-> Ev("next", subscribers[i], "", b)]

\* The sequence without its entries equal to s
FoWithout(subscribers, s) ==
  SelectSeq(subscribers, LAMBDA x : x # s)

FoMembers(subscribers) == {subscribers[i] : i \in 1..Len(subscribers)}

\* fromEvent(el, "focus"), fromEvent(el, "blur"): subscribing the merged
\* source registers one pair of listeners. shareReplay(1) subscribes its
\* source for its first subscriber only
FoListenersOnSubscribe(listeners) == IF listeners = 0 THEN 1 ELSE listeners

\* shareReplay(1) does not count references: it keeps its source subscribed
\* when its last subscriber leaves
FoListenersOnUnsubscribe(listeners, subscribers) == listeners

FocusInit ==
  /\ fo_called = FALSE
  /\ fo_focused = FALSE
  /\ fo_start = NoBool
  /\ fo_subscribers = << >>
  /\ fo_listeners = 0
  /\ fo_buffer = NoBool
  /\ fo_log = << >>

\* watchElementFocus(el): the pipeline is built, the argument of startWith
\* is evaluated
FoCall ==
  /\ ~fo_called
  /\ FocusEvents < MaxFocusEvents
  /\ fo_called' = TRUE
  /\ fo_start' = SomeBool(isActiveElement)
  /\ fo_log' = Append(fo_log, Ev("call", 0, "", fo_focused))
  /\ UNCHANGED <<fo_focused, fo_subscribers, fo_listeners, fo_buffer, foOthers>>

\* el gains (b = TRUE) or loses (b = FALSE) focus: the browser fires the
\* event, a registered listener maps it to b, shareReplay stores and
\* delivers it
FoEvent(b) ==
  /\ fo_focused # b
  /\ FocusEvents < MaxFocusEvents
  /\ fo_focused' = b
  /\ LET ev == Append(fo_log, Ev(IF b THEN "focus" ELSE "blur", 0, "", b))
     IN IF fo_listeners > 0
        THEN /\ fo_buffer' = SomeBool(b)
             /\ fo_log' = ev \o FoNext(fo_subscribers, b)
        ELSE /\ fo_buffer' = fo_buffer
             /\ fo_log' = ev
  /\ UNCHANGED <<fo_called, fo_start, fo_subscribers, fo_listeners, foOthers>>

\* A subscriber subscribes the returned stream: the first one makes
\* shareReplay subscribe its source, which emits the startWith value and
\* registers the listeners; a later one is handed the stored value
FoSubscribe(s) ==
  /\ fo_called
  /\ s \notin FoMembers(fo_subscribers)
  /\ FocusEvents < MaxFocusEvents
  /\ fo_subscribers' = Append(fo_subscribers, s)
  /\ fo_listeners' = FoListenersOnSubscribe(fo_listeners)
  /\ LET first == fo_listeners = 0
         value == IF first THEN fo_start ELSE fo_buffer
     IN /\ fo_buffer' = value
        /\ fo_log' = Append(fo_log, Ev("subscribe", s, "", fo_focused))
                       \o (IF value.has THEN <<Ev("next", s, "", value.val)>>
                           ELSE << >>)
  /\ UNCHANGED <<fo_called, fo_focused, fo_start, foOthers>>

FoUnsubscribe(s) ==
  /\ s \in FoMembers(fo_subscribers)
  /\ FocusEvents < MaxFocusEvents
  /\ fo_subscribers' = FoWithout(fo_subscribers, s)
  /\ fo_listeners' = FoListenersOnUnsubscribe(fo_listeners, fo_subscribers')
  /\ fo_log' = Append(fo_log, Ev("unsubscribe", s, "", fo_focused))
  /\ UNCHANGED <<fo_called, fo_focused, fo_start, fo_buffer, foOthers>>

FocusNext ==
  \/ FoCall
  \/ \E b \in BOOLEAN : FoEvent(b)
  \/ \E s \in Subscribers : FoSubscribe(s)
  \/ \E s \in Subscribers : FoUnsubscribe(s)

(***************************************************************************)
(* patchDetails                                                            *)
(***************************************************************************)
MaxDetailsEvents == 5

DetailEls == {1, 2, 3}

\* Documents that document$ emits: their details elements, and those of
\* them that carry the open attribute
Documents ==
  {[details |-> {1, 2, 3}, open |-> {1, 2}],
   [details |-> {1, 2, 3}, open |-> {}],
   [details |-> {1, 2}, open |-> {2}],
   [details |-> {}, open |-> {}]}

\* One entry of the details log: the details elements of the document, those
\* open before and after the event, the list emitted
DtEv(k, v, details, before, after, els) ==
  [k |-> k, v |-> v, details |-> details, before |-> before,
   after |-> after, els |-> els]

DetailsEvents == Len(SelectSeq(dt_log, LAMBDA e : e.k # "out"))

\* getElements("details"): all details elements of the current document
getElements(details) == details

\* the attribute flipped on each element
setAttributeOpen_toggle(open, els) == (open \ els) \cup (els \ open)

\* for (const detail of els) detail.setAttribute("open", "")
setAttributeOpen(open, els) == open \cup els

DetailsInit ==
  /\ dt_subscribed = FALSE
  /\ dt_replays = FALSE
  /\ dt_emitted = FALSE
  /\ dt_details = {}
  /\ dt_open = {}
  /\ dt_media = FALSE
  /\ dt_armed = FALSE
  /\ dt_buffer = [has |-> FALSE, val |-> {}]
  /\ dt_log = << >>

\* map, tap, shareReplay: document$ delivered a document to the pipeline.
\* The details elements of a document with the given open set are fetched
\* and opened, and the list is emitted and stored
DtPatch(log, details, open) ==
  LET els == getElements(details)
      opened == setAttributeOpen(open, els)
  IN /\ dt_open' = opened
     /\ dt_buffer' = [has |-> TRUE, val |-> els]
     /\ dt_log' = Append(log, DtEv("out", "", details, open, opened, els))

\* the stream patchDetails({ document$ }) returns is subscribed, document$
\* being a stream that replays its latest value or one that does not; the
\* page is not being printed at that moment
DtSubscribe(replays) ==
  /\ ~dt_subscribed
  /\ ~dt_media
  /\ DetailsEvents < MaxDetailsEvents
  /\ dt_subscribed' = TRUE
  /\ dt_replays' = replays
  /\ dt_log' = Append(dt_log, DtEv("subscribe", "", dt_details, dt_open, dt_open, {}))
  /\ UNCHANGED <<dt_emitted, dt_details, dt_open, dt_media, dt_armed, dt_buffer,
                 dtOthers>>

\* switchMapTo(document$): a print trigger reached the pipeline; document$
\* is subscribed anew and, if it replays, delivers the current document
DtOnTrigger(log) ==
  /\ dt_armed' = TRUE
  /\ IF dt_replays /\ dt_emitted
     THEN DtPatch(log, dt_details, dt_open)
     ELSE /\ dt_log' = log
          /\ UNCHANGED <<dt_open, dt_buffer>>

\* the print media query starts (b = TRUE) or stops (b = FALSE) matching;
\* filter(identity) lets only true through
DtMedia(b) ==
  /\ dt_subscribed
  /\ dt_media # b
  /\ DetailsEvents < MaxDetailsEvents
  /\ dt_media' = b
  /\ IF b
     THEN DtOnTrigger(Append(dt_log, DtEv("trigger", "media", dt_details, dt_open, dt_open, {})))
     ELSE /\ dt_log' = Append(dt_log, DtEv("screen", "media", dt_details, dt_open, dt_open, {}))
          /\ UNCHANGED <<dt_armed, dt_open, dt_buffer>>
  /\ UNCHANGED <<dt_subscribed, dt_replays, dt_emitted, dt_details, dtOthers>>

\* the window fires beforeprint
DtBeforePrint ==
  /\ DetailsEvents < MaxDetailsEvents
  /\ IF dt_subscribed
     THEN DtOnTrigger(Append(dt_log,
                             DtEv("trigger", "beforeprint", dt_details, dt_open, dt_open, {})))
     ELSE /\ dt_log' = Append(dt_log,
                              DtEv("unheard", "beforeprint", dt_details, dt_open, dt_open, {}))
          /\ UNCHANGED <<dt_armed, dt_open, dt_buffer>>
  /\ UNCHANGED <<dt_subscribed, dt_replays, dt_emitted, dt_details, dt_media,
                 dtOthers>>

\* document$ emits a document; the pipeline receives it when switchMapTo is
\* subscribed to document$
DtDocument(doc) ==
  /\ DetailsEvents < MaxDetailsEvents
  /\ dt_emitted' = TRUE
  /\ dt_details' = doc.details
  /\ LET log == Append(dt_log, DtEv("document", "", doc.details, doc.open, doc.open, {}))
     IN IF dt_armed
        THEN DtPatch(log, doc.details, doc.open)
        ELSE /\ dt_open' = doc.open
             /\ dt_log' = log
             /\ UNCHANGED dt_buffer
  /\ UNCHANGED <<dt_subscribed, dt_replays, dt_media, dt_armed, dtOthers>>

DetailsNext ==
  \/ \E replays \in BOOLEAN : DtSubscribe(replays)
  \/ \E b \in BOOLEAN : DtMedia(b)
  \/ DtBeforePrint
  \/ \E doc \in Documents : DtDocument(doc)

(***************************************************************************)
(* setupClipboardJS                                                        *)
(***************************************************************************)
MaxClipboardEvents == 6

CbExternal == {"call", "subscribe", "unsubscribe", "success"}

ClipboardEvents ==
  Cardinality({i \in 1..Len(cb_log) : cb_log[i].k \in CbExternal})

\* the test of isSupported left out
setupClipboardJS_unguarded(supported) == "shared"

\* if (!ClipboardJS.isSupported()) return NEVER; otherwise the shared
\* observable around the library instance
setupClipboardJS(supported) == IF ~supported THEN "NEVER" ELSE "shared"

\* What a stream of this kind sends a subscriber by itself on subscription:
\* NEVER sends nothing, the shared observable sends nothing either
CbOnSubscribe(stream, s) == << >>

\* share(): the source is subscribed when the first subscriber arrives
CbConnect(connection, subscribers, instances) ==
  IF subscribers = << >> THEN Len(instances) + 1 ELSE connection

\* share(): the source is unsubscribed when the last subscriber leaves
CbRelease(connection, subscribers) ==
  IF subscribers = << >> THEN 0 ELSE connection

\* The handler of the instance made for source subscription c calls
\* subscriber.next; a subscriber of an ended subscription ignores it
CbHandler(c, connection, subscribers) ==
  IF c = connection
  THEN [i \in 1..Len(subscribers) |-> Ev("next", subscribers[i], "", TRUE)]
  ELSE << >>

RECURSIVE CbHandlers(_, _, _, _)
CbHandlers(instances, n, connection, subscribers) ==
  IF n > Len(instances) THEN << >>
  ELSE CbHandler(instances[n], connection, subscribers)
         \o CbHandlers(instances, n + 1, connection, subscribers)

ClipboardInit ==
  /\ cb_called = FALSE
  /\ cb_stream = ""
  /\ cb_subscribers = << >>
  /\ cb_connection = 0
  /\ cb_instances = << >>
  /\ cb_log = << >>

\* setupClipboardJS() is called in an environment that supports the
\* clipboard or in one that does not
CbSetup(supported) ==
  /\ ~cb_called
  /\ ClipboardEvents < MaxClipboardEvents
  /\ cb_called' = TRUE
  /\ cb_stream' = setupClipboardJS(supported)
  /\ cb_log' = Append(cb_log, Ev("call", 0, "", supported))
  /\ UNCHANGED <<cb_subscribers, cb_connection, cb_instances, cbOthers>>

\* A subscriber subscribes the returned stream; the subscribe function of
\* the shared observable constructs a ClipboardJS instance
CbSubscribe(s) ==
  /\ cb_called
  /\ s \notin FoMembers(cb_subscribers)
  /\ ClipboardEvents < MaxClipboardEvents
  /\ cb_subscribers' = Append(cb_subscribers, s)
  /\ LET sub == Append(cb_log, Ev("subscribe", s, "", cb_stream = "shared"))
                  \o CbOnSubscribe(cb_stream, s)
         c == CbConnect(cb_connection, cb_subscribers, cb_instances)
     IN IF cb_stream = "shared" /\ c # cb_connection
        THEN /\ cb_connection' = c
             /\ cb_instances' = Append(cb_instances, c)
             /\ cb_log' = Append(sub, Ev("construct", c, "", TRUE))
        ELSE /\ cb_log' = sub
             /\ UNCHANGED <<cb_connection, cb_instances>>
  /\ UNCHANGED <<cb_called, cb_stream, cbOthers>>

\* A subscriber unsubscribes; the subscribe function returned no teardown,
\* so the instance stays
CbUnsubscribe(s) ==
  /\ s \in FoMembers(cb_subscribers)
  /\ ClipboardEvents < MaxClipboardEvents
  /\ cb_subscribers' = FoWithout(cb_subscribers, s)
  /\ cb_connection' = CbRelease(cb_connection, cb_subscribers')
  /\ cb_log' = Append(cb_log, Ev("unsubscribe", s, "", cb_stream = "shared"))
  /\ UNCHANGED <<cb_called, cb_stream, cb_instances, cbOthers>>

\* A copy succeeds: every ClipboardJS instance fires its success handler
CbSuccess ==
  /\ ClipboardEvents < MaxClipboardEvents
  /\ cb_log' = Append(cb_log, Ev("success", 0, "", TRUE))
                 \o CbHandlers(cb_instances, 1, cb_connection, cb_subscribers)
  /\ UNCHANGED <<cb_called, cb_stream, cb_subscribers, cb_connection, cb_instances,
                 cbOthers>>

ClipboardNext ==
  \/ \E supported \in BOOLEAN : CbSetup(supported)
  \/ \E s \in Subscribers : CbSubscribe(s)
  \/ \E s \in Subscribers : CbUnsubscribe(s)
  \/ CbSuccess

(***************************************************************************)
(* Specifications                                                          *)
(***************************************************************************)
Init ==
  /\ TakeIfInit
  /\ SwitchMapIfInit
  /\ MainInit
  /\ NavigationInit
  /\ FocusInit
  /\ DetailsInit
  /\ ClipboardInit

\* takeIf in use, the other components idle
InitTakeIf ==
  /\ TakeIfInit
  /\ SwitchMapIfIdle
  /\ MainIdle
  /\ NavigationInit
  /\ FocusInit
  /\ DetailsInit
  /\ ClipboardInit

SpecTakeIf == InitTakeIf /\ [][TakeIfNext]_vars

\* switchMapIf in use, the other components idle
InitSwitchMapIf ==
  /\ TakeIfInit
  /\ SwitchMapIfInit
  /\ MainIdle
  /\ NavigationInit
  /\ FocusInit
  /\ DetailsInit
  /\ ClipboardInit

SpecSwitchMapIf == InitSwitchMapIf /\ [][SwitchMapIfNext]_vars

\* setupMain with one subscriber, subscribed from the start
InitSubscribed ==
  /\ TakeIfInit
  /\ SwitchMapIfIdle
  /\ MainInitWith({1})
  /\ NavigationInit
  /\ FocusInit
  /\ DetailsInit
  /\ ClipboardInit

SpecMain == InitSubscribed /\ [][MainNext]_vars

\* setupMain with subscribers that come and go
InitMainShared ==
  /\ TakeIfInit
  /\ SwitchMapIfIdle
  /\ MainInit
  /\ NavigationInit
  /\ FocusInit
  /\ DetailsInit
  /\ ClipboardInit

SpecMainShared == InitMainShared /\ [][MainSharedNext]_vars

\* mountNavigation in use, the other components idle
InitNavigation ==
  /\ TakeIfInit
  /\ SwitchMapIfIdle
  /\ MainIdle
  /\ NavigationInit
  /\ FocusInit
  /\ DetailsInit
  /\ ClipboardInit

SpecNavigation == InitNavigation /\ [][NavigationNext]_vars

\* watchElementFocus in use, the other components idle
InitFocus ==
  /\ TakeIfInit
  /\ SwitchMapIfIdle
  /\ MainIdle
  /\ NavigationInit
  /\ FocusInit
  /\ DetailsInit
  /\ ClipboardInit

SpecFocus == InitFocus /\ [][FocusNext]_vars

\* patchDetails in use, the other components idle
InitDetails ==
  /\ TakeIfInit
  /\ SwitchMapIfIdle
  /\ MainIdle
  /\ NavigationInit
  /\ FocusInit
  /\ DetailsInit
  /\ ClipboardInit

SpecDetails == InitDetails /\ [][DetailsNext]_vars

\* setupClipboardJS in use, the other components idle
InitClipboard ==
  /\ TakeIfInit
  /\ SwitchMapIfIdle
  /\ MainIdle
  /\ NavigationInit
  /\ FocusInit
  /\ DetailsInit
  /\ ClipboardInit

SpecClipboard == InitClipboard /\ [][ClipboardNext]_vars

(***************************************************************************)
(* Reading the event logs                                                  *)
(***************************************************************************)
Greatest(S) == CHOOSE x \in S : \A y \in S : y <= x

\* The latest toggle value in log before position i
ToggleBefore(log, i) ==
  LET js == {j \in 1..(i - 1) : log[j].k = "toggle"}
  IN IF js = {} THEN NoBool ELSE SomeBool(log[Greatest(js)].b)

\* Whether an input arrived before position i, and the latest one
HasInputBefore(log, i) == \E j \in 1..(i - 1) : log[j].k = "input"
InputBefore(log, i) ==
  log[Greatest({j \in 1..(i - 1) : log[j].k = "input"})].v

\* The derived streams subscribed once the first n entries of log happened
LiveAfter(log, n) ==
  {log[j].id : j \in {j \in 1..n :
      /\ log[j].k = "sub"
      /\ ~\E k \in (j + 1)..n :
            log[k].k \in {"unsub", "complete"} /\ log[k].id = log[j].id}}

\* Entry i of log is of kind k
IsKind(log, i, k) == i \in 1..Len(log) /\ log[i].k = k

(***************************************************************************)
(* takeIf: claims                                                          *)
(***************************************************************************)
\* C1: a source value is emitted, unchanged and at the moment it arrives, if
\* and only if the latest toggle value before it is true; a value that
\* arrives while the toggle is false or has not emitted is never emitted
\* later, so the output is an order-preserving subsequence of the source.
C1_TakeIfGates ==
  /\ \A i \in 1..Len(ti_log) :
       ti_log[i].k = "source" =>
         LET t == ToggleBefore(ti_log, i)
             passed == IsKind(ti_log, i + 1, "out") /\ ti_log[i + 1].v = ti_log[i].v
         IN passed <=> (t.has /\ t.val)
  /\ \A j \in 1..Len(ti_log) :
       ti_log[j].k = "out" =>
         IsKind(ti_log, j - 1, "source") /\ ti_log[j - 1].v = ti_log[j].v

\* C1 witness: a value dropped while the toggle was false, the toggle turning
\* true, and a later value passed while the dropped one stays dropped
C1_Witness ==
  \E i, j, k \in 1..Len(ti_log) :
    /\ i < j /\ j < k
    /\ ti_log[i].k = "source" /\ ToggleBefore(ti_log, i) = SomeBool(FALSE)
    /\ ti_log[j].k = "toggle" /\ ti_log[j].b
    /\ ti_log[k].k = "out" /\ ti_log[k].v # ti_log[i].v

(***************************************************************************)
(* switchMapIf: claims                                                     *)
(***************************************************************************)
\* C2: when the toggle emits false while a derived stream is live, that
\* stream is unsubscribed at the false emission, none of its later values is
\* emitted downstream, and every value emitted downstream follows a true as
\* the latest toggle emission.
C2_NoLeakPastFalse ==
  /\ \A j \in 1..Len(sm_log) :
       (sm_log[j].k = "toggle" /\ ~sm_log[j].b) =>
         \A id \in LiveAfter(sm_log, j - 1) :
           /\ IsKind(sm_log, j + 1, "unsub") /\ sm_log[j + 1].id = id
           /\ \A i \in (j + 1)..Len(sm_log) :
                ~(sm_log[i].k = "out" /\ sm_log[i].id = id)
  /\ \A i \in 1..Len(sm_log) :
       sm_log[i].k = "out" => ToggleBefore(sm_log, i) = SomeBool(TRUE)

\* C2 witness: the toggle emitted false while a derived stream was live, and
\* that stream produced a value afterwards
C2_Witness ==
  \E j, i \in 1..Len(sm_log) :
    /\ j < i
    /\ sm_log[j].k = "toggle" /\ ~sm_log[j].b
    /\ sm_log[i].k = "src"
    /\ sm_log[i].id \in LiveAfter(sm_log, j - 1)

\* C3: when an input arrives while a derived stream is live, that stream is
\* cancelled at that moment and none of its values is emitted downstream
\* afterwards, whether or not the toggle replays its latest value.
C3_InputSupersedes ==
  \A j \in 1..Len(sm_log) :
    sm_log[j].k = "input" =>
      \A id \in LiveAfter(sm_log, j - 1) :
        /\ IsKind(sm_log, j + 2, "unsub") /\ sm_log[j + 2].id = id
        /\ \A i \in (j + 1)..Len(sm_log) :
             ~(sm_log[i].k = "out" /\ sm_log[i].id = id)

\* C4: at every moment at most one derived stream is subscribed, and a derived
\* stream is subscribed only when no other one is.
C4_AtMostOneLive ==
  /\ Cardinality(sm_subscribed) <= 1
  /\ \A n \in 0..Len(sm_log) : Cardinality(LiveAfter(sm_log, n)) <= 1
  /\ \A i \in 1..Len(sm_log) :
       sm_log[i].k = "sub" => LiveAfter(sm_log, i - 1) = {}

\* C4 witness: a derived stream was subscribed right after the previously
\* live one was unsubscribed
C4_Witness ==
  \E i \in 2..Len(sm_log) :
    /\ sm_log[i].k = "sub"
    /\ sm_log[i - 1].k = "unsub"
    /\ sm_log[i - 1].id # sm_log[i].id
    /\ sm_subscribed = {sm_log[i].id}

\* C5: project is invoked only while true is the latest toggle value and only
\* on the latest input; an input that arrives while the toggle is false
\* starts nothing; a true emission starts project on the latest input, and
\* starts nothing when no input has arrived.
C5_ProjectOnLatestInput ==
  /\ \A i \in 1..Len(sm_log) :
       sm_log[i].k = "project" =>
         /\ ToggleBefore(sm_log, i) = SomeBool(TRUE)
         /\ HasInputBefore(sm_log, i)
         /\ sm_log[i].v = InputBefore(sm_log, i)
  /\ \A j \in 1..Len(sm_log) :
       (sm_log[j].k = "input" /\ ToggleBefore(sm_log, j) = SomeBool(FALSE)) =>
         ~IsKind(sm_log, j + 1, "project")
  /\ \A j \in 1..Len(sm_log) :
       (sm_log[j].k = "toggle" /\ sm_log[j].b) =>
         IF HasInputBefore(sm_log, j)
         THEN IsKind(sm_log, j + 1, "project")
              /\ sm_log[j + 1].v = InputBefore(sm_log, j)
         ELSE ~IsKind(sm_log, j + 1, "project")

\* C5 witness: two inputs arrived while the toggle was false, then the toggle
\* emitted true and project was invoked on the second one
C5_Witness ==
  \E i, j, k \in 1..Len(sm_log) :
    /\ i < j /\ j < k
    /\ sm_log[i].k = "input" /\ ToggleBefore(sm_log, i) = SomeBool(FALSE)
    /\ sm_log[j].k = "input" /\ sm_log[j].v # sm_log[i].v
    /\ ToggleBefore(sm_log, j) = SomeBool(FALSE)
    /\ sm_log[k].k = "toggle" /\ sm_log[k].b
    /\ IsKind(sm_log, k + 1, "project") /\ sm_log[k + 1].v = sm_log[j].v

\* The position of the first input after position j, or the end of the log
NextInputAfter(j) ==
  LET js == {i \in (j + 1)..Len(sm_log) : sm_log[i].k = "input"}
  IN IF js = {} THEN Len(sm_log) + 1
     ELSE CHOOSE i \in js : \A m \in js : i <= m

\* C21: every true the toggle emits while an input has arrived invokes
\* project on the latest input, unsubscribes the derived stream that is live
\* and subscribes the new one, also when the toggle's previous emission was
\* true; so for each input project is invoked once per true the toggle
\* delivers while that input is the latest (a replayed true counted).
C21_RestartOnEveryTrue ==
  /\ \A j \in 1..Len(sm_log) :
       (sm_log[j].k = "toggle" /\ sm_log[j].b /\ HasInputBefore(sm_log, j)) =>
         LET live == LiveAfter(sm_log, j - 1)
             n == Cardinality(live)
         IN /\ IsKind(sm_log, j + 1, "project")
            /\ sm_log[j + 1].v = InputBefore(sm_log, j)
            /\ \A id \in live :
                 IsKind(sm_log, j + 2, "unsub") /\ sm_log[j + 2].id = id
            /\ IsKind(sm_log, j + 2 + n, "sub")
            /\ sm_log[j + 2 + n].id = sm_log[j + 1].id
            /\ sm_log[j + 1].id \notin live
  /\ \A j \in 1..Len(sm_log) :
       sm_log[j].k = "input" =>
         LET next == NextInputAfter(j)
             calls == {i \in (j + 1)..(next - 1) : sm_log[i].k = "project"}
             trues == {i \in (j + 1)..(next - 1) :
                         sm_log[i].k = "toggle" /\ sm_log[i].b}
             replayed == IF sm_replays /\ ToggleBefore(sm_log, j) = SomeBool(TRUE)
                         THEN 1 ELSE 0
         IN /\ Cardinality(calls) = Cardinality(trues) + replayed
            /\ \A i \in calls : sm_log[i].v = sm_log[j].v

\* C21 witness: the toggle emitted true twice with no false in between while
\* one input was the latest; the second true unsubscribed the stream the
\* first one started and invoked project again on the same input
C21_Witness ==
  \E i, j \in 1..Len(sm_log) :
    /\ i < j
    /\ sm_log[i].k = "toggle" /\ sm_log[i].b
    /\ sm_log[j].k = "toggle" /\ sm_log[j].b
    /\ \A m \in (i + 1)..(j - 1) : sm_log[m].k \notin {"toggle", "input"}
    /\ LiveAfter(sm_log, j - 1) = {sm_log[i + 1].id}
    /\ IsKind(sm_log, j + 1, "project")
    /\ sm_log[j + 1].v = sm_log[i + 1].v
    /\ sm_log[j + 1].id # sm_log[i + 1].id
    /\ IsKind(sm_log, j + 2, "unsub") /\ sm_log[j + 2].id = sm_log[i + 1].id
    /\ sm_subscribed = {sm_log[j + 1].id}

(***************************************************************************)
(* setupMain: claims                                                       *)
(***************************************************************************)
\* The visible height and the snapshot as the specification states them
ExpectedHeight(top, oh, y, vh, adjust) ==
  vh - Greatest({0, top - y, adjust}) - Greatest({0, vh + y - (top + oh)})

ExpectedMain(top, oh, y, vh, adjust) ==
  [offset |-> top - adjust,
   height |-> ExpectedHeight(top, oh, y, vh, adjust),
   active |-> (y >= top - adjust)]

\* Every input has delivered a value to the streams of the mounted element
MainComplete ==
  /\ mn_mounted
  /\ mn_heightIn.y.has /\ mn_heightIn.height.has /\ mn_heightIn.adjust.has

\* The inputs of the worked example: the box (100, 400), viewport height 800,
\* header height 50, at viewport offset y, with the box as it was at mount
MainExample(y) ==
  /\ MainComplete /\ ~mn_boxChanged
  /\ mn_mountBox = [top |-> 100, height |-> 400]
  /\ vp_offset.val = y /\ vp_size.val = 800 /\ hd_height.val = 50

\* C6 as stated: in the initial state of the worked example (y = 0) the
\* snapshot is offset 50, height 750, active false.
C6_ExampleAsStated ==
  MainExample(0) =>
    /\ MainLast.has
    /\ MainLast.val = [offset |-> 50, height |-> 750, active |-> FALSE]

\* C6 amended: in the initial state of the worked example (y = 0) the
\* snapshot is offset 50, height 400 (800 - max(0, 100, 50) - max(0, 300)),
\* active false.
C6_ExampleInitial ==
  MainExample(0) =>
    /\ MainLast.has
    /\ MainLast.val = [offset |-> 50, height |-> 400, active |-> FALSE]

\* C6 witness: the initial state of the worked example with its snapshot
\* emitted by the latest event
C6_Witness == MainExample(0) /\ mn_emitted # << >>

\* C7: once every input has emitted and while the box is the one of the
\* mount, the last snapshot is the one the formulas give on the latest y,
\* viewport height and header height, negative heights included; in the
\* worked example at y = 60 it is offset 50, height 390, active true.
C7_SteadyState ==
  /\ (mn_replay /\ mn_mounted /\ vp_offset.has /\ vp_size.has /\ hd_height.has)
       => MainComplete
  /\ (MainComplete /\ ~mn_boxChanged) =>
       /\ MainLast.has
       /\ MainLast.val = ExpectedMain(mn_mountBox.top, mn_mountBox.height,
                                      vp_offset.val, vp_size.val, hd_height.val)
  /\ MainExample(60) =>
       MainLast.val = [offset |-> 50, height |-> 390, active |-> TRUE]

\* C7 witness: the worked example scrolled from a snapshot that was not
\* active to y = 60
C7_Witness ==
  /\ MainExample(60)
  /\ mn_prev.has /\ ~mn_prev.val.active
  /\ mn_emitted # << >>

\* C8: every snapshot emitted, not only the last one of an event, has its
\* three fields computed from the latest y, viewport height and header height.
C8_NoStaleCombination ==
  ~mn_boxChanged =>
    \A i \in 1..Len(mn_emitted) :
      mn_emitted[i] = ExpectedMain(mn_mountBox.top, mn_mountBox.height,
                                   vp_offset.val, vp_size.val, hd_height.val)

\* C9: no two consecutive snapshots emitted for the mounted element are equal
\* in offset, height and active.
C9_NoRepeatedSnapshot ==
  ~mn_boxChanged =>
    /\ \A i \in 1..(Len(mn_emitted) - 1) : mn_emitted[i] # mn_emitted[i + 1]
    /\ (mn_prev.has /\ mn_emitted # << >>) => mn_emitted[1] # mn_prev.val

\* C10 as stated: a snapshot emitted after the element arrived is computed
\* from the offsetTop and offsetHeight the element had when it arrived.
C10_BoxOfMount ==
  mn_emitted # << >> =>
    LET last == mn_emitted[Len(mn_emitted)]
    IN /\ last.offset = mn_mountBox.top - hd_height.val
       /\ last.height = ExpectedHeight(mn_mountBox.top, mn_mountBox.height,
                                       vp_offset.val, vp_size.val, hd_height.val)

\* C10 amended: offsetTop and offsetHeight are read at every recomputation,
\* so the last snapshot an event emits has its offset and its height computed
\* from the box the element has at that event.
C10_BoxOfEmission ==
  mn_emitted # << >> =>
    LET last == mn_emitted[Len(mn_emitted)]
    IN /\ last.offset = el_box.top - hd_height.val
       /\ last.height = ExpectedHeight(el_box.top, el_box.height,
                                       vp_offset.val, vp_size.val, hd_height.val)

\* C10 witness: a snapshot emitted after both offsetTop and offsetHeight
\* changed since the element arrived
C10_Witness ==
  /\ mn_emitted # << >>
  /\ mn_boxChanged
  /\ el_box.top # mn_mountBox.top
  /\ el_box.height # mn_mountBox.height

\* C11: whatever the number of subscribers, shareReplay holds one
\* subscription to the switchMap stage, so the projection runs once for each
\* element and never for a subscriber that joins; a subscriber that joins
\* after a snapshot was emitted receives exactly the latest one at once.
C11_SharedReplayLatest ==
  /\ mn_upstream <= 1
  /\ mn_subscribers # {} => mn_upstream = 1
  /\ mn_projected <= 1
  /\ mn_joined # NoSubscriber =>
       /\ mn_projected = 0
       /\ Len(mn_replayed) <= 1
       /\ MainLast.has => mn_replayed = <<MainLast.val>>

\* C11 witness: a second subscriber joined after snapshots of the mounted
\* element were emitted and received the latest one
C11_Witness ==
  /\ mn_joined # NoSubscriber
  /\ Cardinality(mn_subscribers) = 2
  /\ mn_mounted /\ MainLast.has
  /\ mn_replayed = <<MainLast.val>>

(***************************************************************************)
(* mountNavigation: claims                                                 *)
(***************************************************************************)
\* The latest value screen$ emitted before position i of the navigation log
ScreenBefore(i) ==
  LET js == {j \in 1..(i - 1) : nv_log[j].k = "screen"}
  IN IF js = {} THEN NoBool ELSE SomeBool(nv_log[Greatest(js)].b)

\* The element the source emitted last before position i (0: none)
ElementBefore(i) ==
  LET js == {j \in 1..(i - 1) : nv_log[j].k = "element"}
  IN IF js = {} THEN 0 ELSE nv_log[Greatest(js)].el

\* The latest screen value delivered to the pipe of element el before i
SeenBefore(el, i) ==
  LET js == {j \in 1..(i - 1) : nv_log[j].k = "seen"}
  IN IF js = {} \/ nv_log[Greatest(js)].el # el
     THEN NoBool
     ELSE SomeBool(nv_log[Greatest(js)].b)

\* The screen$ pipes subscribed once the first n entries happened
ScreenPipesAfter(n) ==
  {nv_log[j].id : j \in {j \in 1..n :
      /\ nv_log[j].k = "subscreen"
      /\ ~\E k \in (j + 1)..n :
            nv_log[k].k = "unsubscreen" /\ nv_log[k].id = nv_log[j].id}}

\* C12: every emitted state has exactly one of the keys sidebar and layer,
\* the one of the latest screen$ value seen for the current element:
\* sidebar after true, layer after false.
C12_OneKeyOfScreen ==
  \A i \in 1..Len(nv_log) :
    nv_log[i].k = "out" =>
      LET keys == nv_log[i].keys
          seen == SeenBefore(ElementBefore(i), i)
          screen == ScreenBefore(i)
      IN /\ keys \in {{"sidebar"}, {"layer"}}
         /\ nv_log[i].el = ElementBefore(i)
         /\ seen.has /\ (seen.val <=> keys = {"sidebar"})
         /\ screen.has /\ (screen.val <=> keys = {"sidebar"})

\* C12 witness: for one element a sidebar state was emitted, screen$ emitted
\* false, and a layer state was emitted
C12_Witness ==
  \E i, j, k \in 1..Len(nv_log) :
    /\ i < j /\ j < k
    /\ nv_log[i].k = "out" /\ nv_log[i].keys = {"sidebar"}
    /\ nv_log[j].k = "screen" /\ ~nv_log[j].b
    /\ nv_log[k].k = "out" /\ nv_log[k].keys = {"layer"}
    /\ nv_log[k].el = nv_log[i].el

\* C13: at most one branch is subscribed at any time; a branch is subscribed
\* only when no other is; the screen$ pipe of a new element is subscribed only
\* when the pipe and the branch of the previous element are unsubscribed.
C13_NoDoubleMount ==
  /\ \A n \in 0..Len(nv_log) :
       /\ Cardinality(LiveAfter(nv_log, n)) <= 1
       /\ Cardinality(ScreenPipesAfter(n)) <= 1
  /\ \A i \in 1..Len(nv_log) :
       /\ nv_log[i].k = "sub" => LiveAfter(nv_log, i - 1) = {}
       /\ nv_log[i].k = "subscreen" =>
            /\ LiveAfter(nv_log, i - 1) = {}
            /\ ScreenPipesAfter(i - 1) = {}
  /\ LiveAfter(nv_log, Len(nv_log)) = (IF nv_inner = 0 THEN {} ELSE {nv_inner})

\* C13 witness: an element arrived while a branch of the previous element was
\* subscribed, and a branch of the new element is subscribed now
C13_Witness ==
  \E i \in 1..Len(nv_log) :
    /\ nv_log[i].k = "element"
    /\ LiveAfter(nv_log, i - 1) # {}
    /\ nv_inner # 0
    /\ nv_branches[nv_inner].el = nv_log[i].el
    /\ \A b \in LiveAfter(nv_log, i - 1) : nv_branches[b].el # nv_log[i].el

(***************************************************************************)
(* watchElementFocus: claims                                               *)
(***************************************************************************)
\* The subscribers of the focus stream once the first n entries happened
FoSubscribedAfter(n) ==
  {s \in Subscribers :
     \E j \in 1..n :
       /\ fo_log[j].k = "subscribe" /\ fo_log[j].id = s
       /\ ~\E k \in (j + 1)..n :
             fo_log[k].k = "unsubscribe" /\ fo_log[k].id = s}

\* The values the stream took in the first n entries: one per focus or blur
\* event heard by a listener, one for the startWith value
FoValuesBefore(i) ==
  {j \in 1..(i - 1) :
     \/ fo_log[j].k = "next" /\ fo_log[j - 1].k = "subscribe"
     \/ fo_log[j].k \in {"focus", "blur"}
          /\ \E k \in 1..(j - 1) : fo_log[k].k = "subscribe"}

\* C14: the first value the first subscriber receives is whether el was the
\* active element when that subscriber subscribed.
C14_FirstValueAtSubscription ==
  \A i \in 1..Len(fo_log) :
    (/\ fo_log[i].k = "subscribe"
     /\ ~\E j \in 1..(i - 1) : fo_log[j].k = "subscribe")
    => /\ i < Len(fo_log)
       /\ fo_log[i + 1].k = "next"
       /\ fo_log[i + 1].id = fo_log[i].id
       /\ fo_log[i + 1].b = fo_log[i].b

\* C14, the value in fact delivered first: whether el was the active element
\* when watchElementFocus was called
C14_FirstValueAtCall ==
  \A i \in 1..Len(fo_log) :
    (/\ fo_log[i].k = "subscribe"
     /\ ~\E j \in 1..(i - 1) : fo_log[j].k = "subscribe")
    => /\ i < Len(fo_log)
       /\ fo_log[i + 1].k = "next"
       /\ fo_log[i + 1].id = fo_log[i].id
       /\ \E c \in 1..(i - 1) : /\ fo_log[c].k = "call"
                                /\ fo_log[i + 1].b = fo_log[c].b

\* C15: the listeners are registered at most once, and not at all while the
\* stream has no subscriber.
C15_ListenersFollowSubscribers ==
  /\ fo_listeners <= 1
  /\ fo_subscribers = << >> => fo_listeners = 0

\* C15, the part that holds: the listeners are registered at most once,
\* and are registered while the stream has a subscriber
C15_ListenersShared ==
  /\ fo_listeners <= 1
  /\ fo_subscribers # << >> => fo_listeners = 1

\* C16, events: every focus event is followed by true and every blur event by
\* false for each subscriber present, in subscription order.
C16_EventsDelivered ==
  \A i \in 1..Len(fo_log) :
    fo_log[i].k \in {"focus", "blur"} =>
      LET present == FoSubscribedAfter(i - 1)
          n == Cardinality(present)
      IN /\ i + n <= Len(fo_log)
         /\ \A d \in 1..n : /\ fo_log[i + d].k = "next"
                            /\ fo_log[i + d].b = (fo_log[i].k = "focus")
         /\ {fo_log[i + d].id : d \in 1..n} = present
         /\ i + n < Len(fo_log) => fo_log[i + n + 1].k # "next"

\* C16, late subscribers: a subscriber that is not the first receives on
\* subscription exactly one value, the most recent the stream took.
C16_LateSubscriberReplay ==
  \A i \in 1..Len(fo_log) :
    (/\ fo_log[i].k = "subscribe"
     /\ \E j \in 1..(i - 1) : fo_log[j].k = "subscribe")
    => /\ i < Len(fo_log)
       /\ fo_log[i + 1].k = "next"
       /\ fo_log[i + 1].id = fo_log[i].id
       /\ fo_log[i + 1].b = fo_log[Greatest(FoValuesBefore(i))].b
       /\ i + 1 < Len(fo_log) => fo_log[i + 2].k # "next"

\* C16, subscribing with focus: a subscriber that subscribes while el is the
\* active element receives true at once.
C16_FocusedAtSubscription ==
  \A i \in 1..Len(fo_log) :
    (fo_log[i].k = "subscribe" /\ fo_log[i].b)
    => /\ i < Len(fo_log)
       /\ fo_log[i + 1].k = "next"
       /\ fo_log[i + 1].id = fo_log[i].id
       /\ fo_log[i + 1].b

\* C16: the stream replays its latest value: true at once when subscribed
\* with focus, true per focus and false per blur to every subscriber, and
\* the most recent value at once to a late subscriber.
C16_ReplaysLatest ==
  /\ C16_FocusedAtSubscription
  /\ C16_EventsDelivered
  /\ C16_LateSubscriberReplay

(***************************************************************************)
(* patchDetails: claims                                                    *)
(***************************************************************************)
\* document$ emitted before position i of the details log
DocumentBefore(i) == \E j \in 1..(i - 1) : dt_log[j].k = "document"

DtCount(kind, n) == Cardinality({j \in 1..n : dt_log[j].k = kind})

\* C17: a print trigger with the document available is followed by a patch
\* after which all details elements of the document are open, none has lost
\* its open attribute, and the emitted list is exactly those elements; a
\* trigger fired again leaves the open elements as they are.
C17_AllDetailsOpened ==
  /\ \A i \in 1..Len(dt_log) :
       (dt_log[i].k = "trigger" /\ dt_replays /\ DocumentBefore(i))
       => /\ i < Len(dt_log)
          /\ dt_log[i + 1].k = "out"
          /\ dt_log[i + 1].before = dt_log[i].after
  /\ \A i \in 1..Len(dt_log) :
       dt_log[i].k = "out"
       => /\ dt_log[i].after = dt_log[i].details
          /\ dt_log[i].before \subseteq dt_log[i].after
          /\ dt_log[i].els = dt_log[i].details
  /\ \A i \in 1..Len(dt_log) :
       (/\ dt_log[i].k = "out"
        /\ \E j \in 1..(i - 1) :
             /\ dt_log[j].k = "out"
             /\ \A m \in (j + 1)..(i - 1) : dt_log[m].k \notin {"document", "out"})
       => dt_log[i].after = dt_log[i].before
  /\ dt_open \subseteq dt_details

\* C17 witness: with three details elements, two of them open, a trigger was
\* followed by a patch that emitted the three; a second trigger patched again
C17_Witness ==
  \E i, j \in 1..Len(dt_log) :
    /\ i < j
    /\ dt_log[i].k = "out" /\ dt_log[i - 1].k = "trigger"
    /\ Cardinality(dt_log[i].before) = 2
    /\ Cardinality(dt_log[i].els) = 3
    /\ dt_log[j].k = "out" /\ dt_log[j - 1].k = "trigger"
    /\ dt_log[j].before = dt_log[i].after

\* C18: at every moment at most as many lists were emitted, and as many
\* patches made, as print triggers fired.
C18_OneShotPerTrigger ==
  \A n \in 1..Len(dt_log) : DtCount("out", n) <= DtCount("trigger", n)

\* C18, the part that holds: nothing is patched or emitted before the first
\* print trigger
C18_NothingBeforeTrigger ==
  \A i \in 1..Len(dt_log) :
    dt_log[i].k = "out" => \E j \in 1..(i - 1) : dt_log[j].k = "trigger"

(***************************************************************************)
(* setupClipboardJS: claims                                                *)
(***************************************************************************)
\* The environment of the call supports the clipboard
CbSupported == \E i \in 1..Len(cb_log) : cb_log[i].k = "call" /\ cb_log[i].b

CbUnsupported == \E i \in 1..Len(cb_log) : cb_log[i].k = "call" /\ ~cb_log[i].b

\* The subscribers of the clipboard stream once the first n entries happened
CbSubscribedAfter(n) ==
  {s \in Subscribers :
     \E j \in 1..n :
       /\ cb_log[j].k = "subscribe" /\ cb_log[j].id = s
       /\ ~\E k \in (j + 1)..n :
             cb_log[k].k = "unsubscribe" /\ cb_log[k].id = s}

CbConstructions == Cardinality({i \in 1..Len(cb_log) : cb_log[i].k = "construct"})

\* C19: in an environment without clipboard support no ClipboardJS instance
\* is ever constructed, and no subscriber is ever sent a value, an error or a
\* completion.
C19_UnsupportedNever ==
  CbUnsupported =>
    /\ cb_instances = << >>
    /\ CbConstructions = 0
    /\ \A i \in 1..Len(cb_log) :
         cb_log[i].k \notin {"construct", "next", "error", "complete"}

\* C19 witness: without support, a subscriber subscribed, a copy succeeded,
\* the subscriber left and another one subscribed
C19_Witness ==
  /\ CbUnsupported
  /\ \E i, j, k \in 1..Len(cb_log) :
       /\ i < j /\ j < k
       /\ cb_log[i].k = "subscribe"
       /\ cb_log[j].k = "success"
       /\ cb_log[k].k = "subscribe"
       /\ cb_log[k].id # cb_log[i].id

\* C20, delivery: every copy-success event is followed by one value for each
\* subscriber present, and by no other.
C20_DeliveredOnce ==
  \A i \in 1..Len(cb_log) :
    (cb_log[i].k = "success" /\ CbSupported) =>
      LET present == CbSubscribedAfter(i - 1)
          n == Cardinality(present)
      IN /\ i + n <= Len(cb_log)
         /\ \A d \in 1..n : cb_log[i + d].k = "next"
         /\ {cb_log[i + d].id : d \in 1..n} = present
         /\ i + n < Len(cb_log) => cb_log[i + n + 1].k # "next"

\* C20: with support, the ClipboardJS constructor is invoked at most once
\* whatever the subscribers do, and every copy-success event reaches every
\* current subscriber exactly once.
C20_OneInstance ==
  /\ CbConstructions <= 1
  /\ Len(cb_instances) <= 1
  /\ C20_DeliveredOnce

=============================================================================
